---------------------------- MODULE Spec2Model ----------------------------
(***************************************************************************)
(* pm: a command-line task/project tracker (src/pm.py) over a two-table    *)
(* SQLite database (src/database.py).                                      *)
(*                                                                         *)
(* Two specifications share the state:                                     *)
(*   Spec    the command-line surface: one action per click command, each  *)
(*           action the whole handler with every Database call it makes;   *)
(*   SpecDB  the Database class used directly: one action per method.      *)
(*                                                                         *)
(* pm runs one short-lived process per command, and SpecDB likewise one     *)
(* Database call per process: a connection a method leaves open when it    *)
(* raises or returns early (database.py:54, 173) is released when the      *)
(* process ends and holds no lock over the next one.  The exit action is   *)
(* the end of the process; only the database file outlives it.             *)
(*                                                                         *)
(* Python values: None is <<>> and a present value v is <<v>>.  A status   *)
(* string is a sequence of one-character strings, so that str.lower() is   *)
(* computed character by character; names, titles and descriptions are     *)
(* strings, "" being the empty string.                                     *)
(***************************************************************************)
EXTENDS Integers, Sequences, FiniteSets, TLC

(***************************************************************************)
(* Bounds of the model.                                                    *)
(***************************************************************************)
\* rows ever inserted into tasks (AUTOINCREMENT ids 1..MaxTasks)
MaxTasks == 2
\* rows ever inserted into projects (AUTOINCREMENT ids 1..MaxProjects)
MaxProjects == 2
\* last value of the one-second clock behind CURRENT_TIMESTAMP
MaxTime == 1

None == <<>>
Some(v) == <<v>>

(***************************************************************************)
(* Strings of the status vocabulary.                                       *)
(***************************************************************************)
TODO == <<"t", "o", "d", "o">>
IN_PROGRESS == <<"i", "n", "-", "p", "r", "o", "g", "r", "e", "s", "s">>
DONE == <<"d", "o", "n", "e">>

\* pm.py:19
VALID_STATUSES == {TODO, IN_PROGRESS, DONE}

\* pm.py:20-27, the dict as a set of <<key, value>> pairs
STATUS_SHORTCUTS ==
    { << <<"t">>, TODO >>, << <<"i">>, IN_PROGRESS >>, << <<"d">>, DONE >>,
      << TODO, TODO >>, << IN_PROGRESS, IN_PROGRESS >>, << DONE, DONE >> }

UpperChars == <<"A", "B", "C", "D", "E", "F", "G", "H", "I", "J", "K", "L", "M",
                "N", "O", "P", "Q", "R", "S", "T", "U", "V", "W", "X", "Y", "Z">>
LowerChars == <<"a", "b", "c", "d", "e", "f", "g", "h", "i", "j", "k", "l", "m",
                "n", "o", "p", "q", "r", "s", "t", "u", "v", "w", "x", "y", "z">>

\* str.lower() on one character
LowerChar(c) ==
    IF \E i \in DOMAIN UpperChars : UpperChars[i] = c
    THEN LowerChars[CHOOSE i \in DOMAIN UpperChars : UpperChars[i] = c]
    ELSE c

\* str.lower()
Lower(s) == [i \in DOMAIN s |-> LowerChar(s[i])]

\* pm.py:29-33  STATUS_SHORTCUTS.get(status.lower(), status)
normalize_status(status) ==
    IF status = None THEN None
    ELSE IF \E kv \in STATUS_SHORTCUTS : kv[1] = Lower(status[1])
         THEN Some((CHOOSE kv \in STATUS_SHORTCUTS : kv[1] = Lower(status[1]))[2])
         ELSE status

\* a validation that lets every status through
IsValidStatusAny(status) == TRUE

\* pm.py:182, 281  status in VALID_STATUSES
IsValidStatus(status) == status[1] \in VALID_STATUSES

\* Python truth of an optional str / optional status string / optional int
TruthyStr(o) == o /= None /\ o[1] /= ""
TruthyStatus(o) == o /= None /\ o[1] /= <<>>
TruthyInt(o) == o /= None /\ o[1] /= 0

(***************************************************************************)
(* The Database class (src/database.py) as operators over the two tables.  *)
(* P is the projects table, T the tasks table (sets of rows), now the      *)
(* value of CURRENT_TIMESTAMP.                                             *)
(***************************************************************************)

\* a projects table that accepts any name
UniqueNameFreeNever(P, name) == TRUE

\* database.py:28  name TEXT UNIQUE NOT NULL: the INSERT is accepted
UniqueNameFree(P, name) == \A p \in P : p.name /= name

\* database.py:54-55  INSERT INTO projects (name); id from AUTOINCREMENT
InsertProject(P, seq, name, t) ==
    P \cup {[id |-> seq + 1, name |-> name]}

\* database.py:60-66
get_project(P, name) ==
    IF \E p \in P : p.name = name
    THEN Some(CHOOSE p \in P : p.name = name)
    ELSE None

\* database.py:68-74
get_project_by_id(P, project_id) ==
    IF \E p \in P : p.id = project_id
    THEN Some(CHOOSE p \in P : p.id = project_id)
    ELSE None

\* database.py:89-93  INSERT INTO tasks (title, project_id, description);
\* status, created_at, updated_at take their column defaults
InsertTask(T, seq, title, project_id, description, t) ==
    T \cup {[id |-> seq + 1, project_id |-> project_id, title |-> title,
             description |-> description, status |-> TODO,
             created_at |-> t, updated_at |-> t]}

\* LEFT JOIN projects p ON t.project_id = p.id: the row plus project_name
Joined(P, r) ==
    [id |-> r.id, project_id |-> r.project_id, title |-> r.title,
     description |-> r.description, status |-> r.status,
     created_at |-> r.created_at, updated_at |-> r.updated_at,
     project_name |->
        IF r.project_id /= None /\ \E p \in P : p.id = r.project_id[1]
        THEN Some((CHOOSE p \in P : p.id = r.project_id[1]).name)
        ELSE None]

\* database.py:98-109
get_task(T, P, task_id) ==
    IF \E r \in T : r.id = task_id
    THEN Some(Joined(P, CHOOSE r \in T : r.id = task_id))
    ELSE None

\* database.py:111-137  the rows selected (ORDER BY is applied by the caller's
\* final sort by id, pm.py:200)
list_tasks(T, P, project_id, status) ==
    {Joined(P, r) : r \in
        {r \in T : /\ (project_id = None \/ r.project_id = project_id)
                   /\ (status = None \/ r.status = status[1])}}

\* database.py:142-145  UPDATE tasks SET status = ?, updated_at = CURRENT_TIMESTAMP
UpdateStatusRows(T, task_id, status, t) ==
    {IF r.id = task_id
     THEN [r EXCEPT !.status = status, !.updated_at = t]
     ELSE r : r \in T}

\* database.py:146,149  rowcount > 0
Affected(T, task_id) == \E r \in T : r.id = task_id

\* database.py:160-173  updates is empty
NoUpdates(title, description, project_id) ==
    title = None /\ description = None /\ project_id = None

\* an UPDATE that always assigns the title column
UpdateTaskRowsAllFields(T, task_id, title, description, project_id, t) ==
    {IF r.id = task_id
     THEN [r EXCEPT !.title = IF title /= None THEN title[1] ELSE "",
                    !.description = IF description /= None THEN description ELSE @,
                    !.project_id = IF project_id /= None THEN project_id ELSE @,
                    !.updated_at = t]
     ELSE r : r \in T}

\* database.py:175-179  UPDATE tasks SET <supplied>, updated_at = CURRENT_TIMESTAMP
UpdateTaskRows(T, task_id, title, description, project_id, t) ==
    {IF r.id = task_id
     THEN [r EXCEPT !.title = IF title /= None THEN title[1] ELSE @,
                    !.description = IF description /= None THEN description ELSE @,
                    !.project_id = IF project_id /= None THEN project_id ELSE @,
                    !.updated_at = t]
     ELSE r : r \in T}

\* database.py:188  DELETE FROM tasks WHERE id = ?
DeleteTaskRows(T, task_id) == {r \in T : r.id /= task_id}

\* a purge that forgets the tasks table
PurgedTasksKeep(T) == T

\* database.py:198  DELETE FROM tasks
PurgedTasks(T) == {}

\* database.py:199  DELETE FROM projects
PurgedProjects(P) == {}


\* database.py:172-173, 179  the tasks table after update_task
update_task_rows(T, task_id, title, description, project_id, t) ==
    IF NoUpdates(title, description, project_id) THEN T
    ELSE UpdateTaskRows(T, task_id, title, description, project_id, t)

\* database.py:172-173, 180-183  the value update_task returns
update_task_ret(T, task_id, title, description, project_id) ==
    ~NoUpdates(title, description, project_id) /\ Affected(T, task_id)

(***************************************************************************)
(* State.                                                                  *)
(***************************************************************************)
VARIABLES
    projects,     \* rows of table projects: [id, name] (created_at is read
                  \* by list_projects' ORDER BY alone)
    tasks,        \* rows of table tasks
    projSeq,      \* sqlite_sequence of projects (AUTOINCREMENT)
    taskSeq,      \* sqlite_sequence of tasks (AUTOINCREMENT)
    now,          \* CURRENT_TIMESTAMP, in whole seconds
    cmd,          \* the last command (Spec) or Database call (SpecDB) and its arguments
    out,          \* the lines the last command printed, in order
    exitCode,     \* the exit status of the last command's process
    calls,        \* the Database methods the last command invoked, in order
    shown,        \* the task ids of the table task list printed, top row first
    ret,          \* what the last Database call returned or raised (SpecDB)
    preProjects,  \* table projects when the last command started
    preTasks      \* table tasks when the last command started

vars == <<projects, tasks, projSeq, taskSeq, now, cmd, out, exitCode, calls,
          shown, ret, preProjects, preTasks>>

\* the arguments a command or call did not take are None
NoArgs ==
    [name |-> "", task_id |-> None, title |-> None, description |-> None,
     project |-> None, project_id |-> None, status |-> None, all |-> None,
     confirm |-> None]

\* database.py:20-48  a fresh database file: both tables exist and are empty
Init ==
    /\ projects = {}
    /\ tasks = {}
    /\ projSeq = 0
    /\ taskSeq = 0
    /\ now = 0
    /\ cmd = NoArgs
    /\ out = <<>>
    /\ exitCode = 0
    /\ calls = <<>>
    /\ shown = <<>>
    /\ ret = None
    /\ preProjects = projects
    /\ preTasks = tasks

\* no pm process is running: the database file is all there is
Idle == cmd = NoArgs

\* the wall clock passes a second boundary between two invocations
Tick ==
    /\ Idle
    /\ now < MaxTime
    /\ now' = now + 1
    /\ UNCHANGED <<projects, tasks, projSeq, taskSeq, cmd, out, exitCode, calls,
                   shown, ret, preProjects, preTasks>>

(***************************************************************************)
(* Inputs.                                                                 *)
(***************************************************************************)
ProjectNames == {"", "p"}
ProjectArgs == {None} \cup {Some(n) : n \in ProjectNames}
\* the command line (Spec): titles and descriptions reach no branch of pm.py
\* but the truth tests of pm.py:298, so one value each, supplied or not
CreateTitles == {"a"}
TitleArgs == {None, Some("a")}
CreateDescriptions == {Some("x")}
DescriptionArgs == {None, Some("x")}
\* the Database methods called directly (SpecDB)
DbTitleArgs == {None, Some("b")}
DbDescriptionArgs == {None, Some("y")}
DbProjectIdArgs == {None, Some(1)}
DbStatusArgs == {Some(DONE), Some(<<"x">>)}
TaskIds == 1..MaxTasks
StatusArgs ==
    {None, Some(<<>>), Some(<<"T">>), Some(<<"i">>), Some(<<"D", "o", "n", "e">>),
     Some(<<"x", "y", "z">>)}

(***************************************************************************)
(* The command-line surface (src/pm.py).                                   *)
(***************************************************************************)

\* pm.py:350-351  the handler returned: click's standalone mode exits 0
ExitReturn == 0
\* pm.py:306, 341  click.confirmation_option declined: "Aborted!", exit 1
ExitAbort == 1

\* a confirmation option that runs the command whatever the answer
ConfirmedAlways(confirm) == TRUE

\* pm.py:306, 341  click.confirmation_option: the command body runs only on yes
Confirmed(confirm) == confirm

\* the lines that carry the error marker (pm.py: "[red]x[/red] ...")
ErrorLines ==
    {"error", "project_not_found", "task_not_found", "invalid_status",
     "failed_update"}

\* one command ran to its end: what it left behind
Finish(c, P, T, pseq, tseq, o, code, cs, sh) ==
    /\ cmd' = c
    /\ projects' = P
    /\ tasks' = T
    /\ projSeq' = pseq
    /\ taskSeq' = tseq
    /\ out' = o
    /\ exitCode' = code
    /\ calls' = cs
    /\ shown' = sh
    /\ ret' = None
    /\ preProjects' = projects
    /\ preTasks' = tasks
    /\ UNCHANGED now

RECURSIVE SortDesc(_)
\* pm.py:200  sorted(tasks, key=id, reverse=True), as the ids
SortDesc(S) ==
    IF S = {} THEN <<>>
    ELSE LET m == CHOOSE x \in S : \A y \in S : y <= x
         IN <<m>> \o SortDesc(S \ {m})

\* pm.py:104-112
project_create ==
    /\ Idle
    /\ \E name \in ProjectNames :
        LET c == [NoArgs EXCEPT !.name = "project create", !.project = Some(name)]
        IN IF UniqueNameFree(projects, name)
           THEN /\ projSeq < MaxProjects
                /\ Finish(c, InsertProject(projects, projSeq, name, now), tasks,
                          projSeq + 1, taskSeq, <<"created_project">>, ExitReturn,
                          <<"create_project">>, <<>>)
           ELSE Finish(c, projects, tasks, projSeq, taskSeq, <<"error">>,
                       ExitReturn, <<"create_project">>, <<>>)

\* pm.py:114-135
project_list ==
    /\ Idle
    /\ Finish([NoArgs EXCEPT !.name = "project list"], projects, tasks, projSeq,
           taskSeq, <<IF projects = {} THEN "no_projects" ELSE "table">>,
           ExitReturn, <<"list_projects">>, <<>>)

\* pm.py:147-162  task create, and add which invokes it (pm.py:319-322)
TaskCreate(nm, title, project, description) ==
    LET c == [NoArgs EXCEPT !.name = nm, !.title = Some(title),
                            !.project = project, !.description = description]
        proj == IF TruthyStr(project) THEN get_project(projects, project[1])
                ELSE None
        cs == IF TruthyStr(project) THEN <<"get_project">> ELSE <<>>
        project_id == IF proj /= None THEN Some(proj[1].id) ELSE None
    IN IF TruthyStr(project) /\ proj = None
       THEN Finish(c, projects, tasks, projSeq, taskSeq, <<"project_not_found">>,
                   ExitReturn, cs, <<>>)
       ELSE /\ taskSeq < MaxTasks
            /\ Finish(c, projects,
                      InsertTask(tasks, taskSeq, title, project_id, description, now),
                      projSeq, taskSeq + 1, <<"created_task">>, ExitReturn,
                      cs \o <<"create_task">>, <<>>)

task_create ==
    /\ Idle
    /\ \E title \in CreateTitles, project \in ProjectArgs,
          description \in CreateDescriptions :
        TaskCreate("task create", title, project, description)

add ==
    /\ Idle
    /\ \E title \in CreateTitles, project \in ProjectArgs,
          description \in CreateDescriptions :
        TaskCreate("add", title, project, description)

\* pm.py:191  [t for t in all_tasks if t['status'] != 'done']
NotDone(rows) == {r \in rows : r.status /= DONE}

\* pm.py:168-218  task list, and ls which invokes it (pm.py:328-331)
TaskList(nm, project, status, all) ==
    LET c == [NoArgs EXCEPT !.name = nm, !.project = project, !.status = status,
                            !.all = Some(all)]
        proj == IF TruthyStr(project) THEN get_project(projects, project[1])
                ELSE None
        cs == IF TruthyStr(project) THEN <<"get_project">> ELSE <<>>
        project_id == IF proj /= None THEN Some(proj[1].id) ELSE None
        st == IF TruthyStatus(status) THEN normalize_status(status) ELSE status
        rows == IF st = None /\ ~all
                THEN NotDone(list_tasks(tasks, projects, project_id, None))
                ELSE list_tasks(tasks, projects, project_id, st)
    IN IF TruthyStr(project) /\ proj = None
       THEN Finish(c, projects, tasks, projSeq, taskSeq, <<"project_not_found">>,
                   ExitReturn, cs, <<>>)
       ELSE IF TruthyStatus(status) /\ ~IsValidStatus(st)
       THEN Finish(c, projects, tasks, projSeq, taskSeq, <<"invalid_status">>,
                   ExitReturn, cs, <<>>)
       ELSE Finish(c, projects, tasks, projSeq, taskSeq,
                   <<IF rows = {} THEN "no_tasks" ELSE "table">>, ExitReturn,
                   cs \o <<"list_tasks">>, SortDesc({r.id : r \in rows}))

task_list ==
    /\ Idle
    /\ \E project \in ProjectArgs, status \in StatusArgs, all \in BOOLEAN :
        TaskList("task list", project, status, all)

ls ==
    /\ Idle
    /\ \E project \in ProjectArgs, status \in StatusArgs, all \in BOOLEAN :
        TaskList("ls", project, status, all)

\* pm.py:223-263
task_show ==
    /\ Idle
    /\ \E task_id \in TaskIds, all \in BOOLEAN :
        Finish([NoArgs EXCEPT !.name = "task show", !.task_id = Some(task_id),
                              !.all = Some(all)],
               projects, tasks, projSeq, taskSeq,
               <<IF get_task(tasks, projects, task_id) = None
                 THEN "task_not_found" ELSE "panel">>,
               ExitReturn, <<"get_task">>, <<>>)

\* pm.py:271-302  task update, and done which invokes it (pm.py:335-338)
TaskUpdate(nm, task_id, status, title, description, project) ==
    LET c == [NoArgs EXCEPT !.name = nm, !.task_id = Some(task_id),
                            !.status = status, !.title = title,
                            !.description = description, !.project = project]
        task == get_task(tasks, projects, task_id)
        st == IF TruthyStatus(status) THEN normalize_status(status) ELSE status
        \* pm.py:285-288
        T1 == IF TruthyStatus(status)
              THEN UpdateStatusRows(tasks, task_id, st[1], now)
              ELSE tasks
        out1 == IF TruthyStatus(status)
                THEN <<IF Affected(tasks, task_id) THEN "updated_status"
                       ELSE "failed_update">>
                ELSE <<>>
        cs1 == <<"get_task">> \o
               (IF TruthyStatus(status) THEN <<"update_task_status">> ELSE <<>>)
        \* pm.py:290-296
        proj == IF TruthyStr(project) THEN get_project(projects, project[1])
                ELSE None
        cs2 == cs1 \o (IF TruthyStr(project) THEN <<"get_project">> ELSE <<>>)
        project_id == IF proj /= None THEN Some(proj[1].id) ELSE None
    IN IF task = None
       THEN Finish(c, projects, tasks, projSeq, taskSeq, <<"task_not_found">>,
                   ExitReturn, <<"get_task">>, <<>>)
       ELSE IF TruthyStatus(status) /\ ~IsValidStatus(st)
       THEN Finish(c, projects, tasks, projSeq, taskSeq, <<"invalid_status">>,
                   ExitReturn, <<"get_task">>, <<>>)
       ELSE IF TruthyStr(project) /\ proj = None
       THEN Finish(c, projects, T1, projSeq, taskSeq,
                   out1 \o <<"project_not_found">>, ExitReturn, cs2, <<>>)
       ELSE IF TruthyStr(title) \/ TruthyStr(description) \/ TruthyInt(project_id)
       THEN Finish(c, projects,
                   update_task_rows(T1, task_id, title, description, project_id, now),
                   projSeq, taskSeq,
                   out1 \o <<IF update_task_ret(T1, task_id, title, description,
                                                project_id)
                             THEN "updated_task" ELSE "failed_update">>,
                   ExitReturn, cs2 \o <<"update_task">>, <<>>)
       ELSE Finish(c, projects, T1, projSeq, taskSeq, out1, ExitReturn, cs2, <<>>)

task_update ==
    /\ Idle
    /\ \E task_id \in TaskIds, status \in StatusArgs, title \in TitleArgs,
       description \in DescriptionArgs, project \in ProjectArgs :
        TaskUpdate("task update", task_id, status, title, description, project)

done ==
    /\ Idle
    /\ \E task_id \in TaskIds :
        TaskUpdate("done", task_id, Some(DONE), None, None, None)

\* pm.py:304-312
task_delete ==
    /\ Idle
    /\ \E task_id \in TaskIds, confirm \in BOOLEAN :
        LET c == [NoArgs EXCEPT !.name = "task delete", !.task_id = Some(task_id),
                                !.confirm = Some(confirm)]
        IN IF ~Confirmed(confirm)
           THEN Finish(c, projects, tasks, projSeq, taskSeq, <<"aborted">>,
                       ExitAbort, <<>>, <<>>)
           ELSE Finish(c, projects, DeleteTaskRows(tasks, task_id), projSeq, taskSeq,
                       <<IF Affected(tasks, task_id) THEN "deleted_task"
                         ELSE "task_not_found">>,
                       ExitReturn, <<"delete_task">>, <<>>)

\* pm.py:340-348
purge ==
    /\ Idle
    /\ \E confirm \in BOOLEAN :
        LET c == [NoArgs EXCEPT !.name = "purge", !.confirm = Some(confirm)]
        IN IF ~Confirmed(confirm)
           THEN Finish(c, projects, tasks, projSeq, taskSeq, <<"aborted">>,
                       ExitAbort, <<>>, <<>>)
           ELSE Finish(c, PurgedProjects(projects), PurgedTasks(tasks), projSeq,
                       taskSeq, <<"purged">>, ExitReturn, <<"purge_database">>,
                       <<>>)

\* pm.py:350-351  the process ends: what it printed and returned is gone, the
\* database file stays (one short-lived process per invocation)
exit ==
    /\ ~Idle
    /\ cmd' = NoArgs
    /\ out' = <<>>
    /\ exitCode' = 0
    /\ calls' = <<>>
    /\ shown' = <<>>
    /\ ret' = None
    /\ preProjects' = projects
    /\ preTasks' = tasks
    /\ UNCHANGED <<projects, tasks, projSeq, taskSeq, now>>

Next ==
    \/ Tick
    \/ exit
    \/ project_create
    \/ project_list
    \/ task_create
    \/ task_list
    \/ task_show
    \/ task_update
    \/ task_delete
    \/ add
    \/ ls
    \/ done
    \/ purge

Spec == Init /\ [][Next]_vars

(***************************************************************************)
(* The Database class called directly (src/database.py), one method per    *)
(* process.                                                                *)
(***************************************************************************)

\* a Database method returned r or raised it
Value(r) == [raised |-> FALSE, value |-> r]
Raised(r) == [raised |-> TRUE, value |-> r]

Return(c, P, T, pseq, tseq, r) ==
    /\ cmd' = c
    /\ projects' = P
    /\ tasks' = T
    /\ projSeq' = pseq
    /\ taskSeq' = tseq
    /\ out' = <<>>
    /\ exitCode' = 0
    /\ calls' = <<c.name>>
    /\ shown' = <<>>
    /\ ret' = r
    /\ preProjects' = projects
    /\ preTasks' = tasks
    /\ UNCHANGED now

\* database.py:51-58
call_create_project ==
    /\ Idle
    /\ \E name \in ProjectNames :
        LET c == [NoArgs EXCEPT !.name = "create_project", !.project = Some(name)]
        IN IF UniqueNameFree(projects, name)
           THEN /\ projSeq < MaxProjects
                /\ Return(c, InsertProject(projects, projSeq, name, now), tasks,
                          projSeq + 1, taskSeq, Value(projSeq + 1))
           ELSE Return(c, projects, tasks, projSeq, taskSeq,
                       Raised("IntegrityError"))

\* database.py:60-66
call_get_project ==
    /\ Idle
    /\ \E name \in ProjectNames :
        Return([NoArgs EXCEPT !.name = "get_project", !.project = Some(name)],
               projects, tasks, projSeq, taskSeq,
               Value(get_project(projects, name)))

\* database.py:68-74
call_get_project_by_id ==
    /\ Idle
    /\ \E project_id \in 1..MaxProjects :
        Return([NoArgs EXCEPT !.name = "get_project_by_id",
                              !.project_id = Some(project_id)],
               projects, tasks, projSeq, taskSeq,
               Value(get_project_by_id(projects, project_id)))

\* database.py:76-82  the rows, as the ids
call_list_projects ==
    /\ Idle
    /\ Return([NoArgs EXCEPT !.name = "list_projects"], projects, tasks, projSeq,
              taskSeq, Value({p.id : p \in projects}))

\* database.py:85-96
call_create_task ==
    /\ Idle
    /\ taskSeq < MaxTasks
    /\ \E title \in CreateTitles, project_id \in DbProjectIdArgs,
          description \in DbDescriptionArgs :
        Return([NoArgs EXCEPT !.name = "create_task", !.title = Some(title),
                              !.project_id = project_id,
                              !.description = description],
               projects,
               InsertTask(tasks, taskSeq, title, project_id, description, now),
               projSeq, taskSeq + 1, Value(taskSeq + 1))

\* database.py:98-109
call_get_task ==
    /\ Idle
    /\ \E task_id \in TaskIds :
        Return([NoArgs EXCEPT !.name = "get_task", !.task_id = Some(task_id)],
               projects, tasks, projSeq, taskSeq,
               Value(get_task(tasks, projects, task_id)))

\* database.py:111-137  the rows, as the ids
call_list_tasks ==
    /\ Idle
    /\ \E project_id \in DbProjectIdArgs, status \in {None} \cup DbStatusArgs :
        Return([NoArgs EXCEPT !.name = "list_tasks", !.project_id = project_id,
                              !.status = status],
               projects, tasks, projSeq, taskSeq,
               Value({r.id : r \in list_tasks(tasks, projects, project_id, status)}))

\* database.py:139-149
call_update_task_status ==
    /\ Idle
    /\ \E task_id \in TaskIds, status \in DbStatusArgs :
        Return([NoArgs EXCEPT !.name = "update_task_status",
                              !.task_id = Some(task_id), !.status = status],
               projects, UpdateStatusRows(tasks, task_id, status[1], now),
               projSeq, taskSeq, Value(Affected(tasks, task_id)))

\* database.py:151-183
call_update_task ==
    /\ Idle
    /\ \E task_id \in TaskIds, title \in DbTitleArgs,
          description \in DbDescriptionArgs, project_id \in DbProjectIdArgs :
        Return([NoArgs EXCEPT !.name = "update_task", !.task_id = Some(task_id),
                              !.title = title, !.description = description,
                              !.project_id = project_id],
               projects,
               update_task_rows(tasks, task_id, title, description, project_id, now),
               projSeq, taskSeq,
               Value(update_task_ret(tasks, task_id, title, description,
                                     project_id)))

\* database.py:185-192
call_delete_task ==
    /\ Idle
    /\ \E task_id \in TaskIds :
        Return([NoArgs EXCEPT !.name = "delete_task", !.task_id = Some(task_id)],
               projects, DeleteTaskRows(tasks, task_id), projSeq, taskSeq,
               Value(Affected(tasks, task_id)))

\* database.py:194-201
call_purge_database ==
    /\ Idle
    /\ Return([NoArgs EXCEPT !.name = "purge_database"], PurgedProjects(projects),
              PurgedTasks(tasks), projSeq, taskSeq, Value(None))

NextDB ==
    \/ Tick
    \/ exit
    \/ call_create_project
    \/ call_get_project
    \/ call_get_project_by_id
    \/ call_list_projects
    \/ call_create_task
    \/ call_get_task
    \/ call_list_tasks
    \/ call_update_task_status
    \/ call_update_task
    \/ call_delete_task
    \/ call_purge_database

SpecDB == Init /\ [][NextDB]_vars

(***************************************************************************)
(* Properties.                                                             *)
(***************************************************************************)
Range(f) == {f[i] : i \in DOMAIN f}

TaskCreateNames == {"task create", "add"}
TaskListNames == {"task list", "ls"}
TaskUpdateNames == {"task update", "done"}

\* the row of table T with this id (there is one)
Row(T, task_id) == CHOOSE r \in T : r.id = task_id

\* C1: a task create / add / task list / ls / task update given a project name
\* that matches no existing project reports "project not found" and leaves
\* both tables as they were, whatever other options were passed.
C1_UnknownProjectLeavesDatabase ==
    (/\ cmd.name \in TaskCreateNames \cup TaskListNames \cup {"task update"}
     /\ cmd.project /= None
     /\ get_project(preProjects, cmd.project[1]) = None)
    => (/\ "project_not_found" \in Range(out)
        /\ projects = preProjects
        /\ tasks = preTasks)

\* C1 for a name pm takes as given (non-empty), the tables alone: task update
\* writes the status (pm.py:285) before it looks the project up (pm.py:292).
C1_NamedProjectLeavesTables ==
    (/\ cmd.name \in TaskCreateNames \cup TaskListNames \cup {"task update"}
     /\ TruthyStr(cmd.project)
     /\ get_project(preProjects, cmd.project[1]) = None)
    => (projects = preProjects /\ tasks = preTasks)

\* C2: in task list and task update, a status argument that normalizes to none
\* of todo, in-progress, done is rejected as invalid before any Database
\* method is invoked.
C2_InvalidStatusBeforeStorage ==
    (/\ cmd.name \in TaskListNames \cup TaskUpdateNames
     /\ cmd.status /= None
     /\ normalize_status(cmd.status)[1] \notin VALID_STATUSES)
    => (/\ "invalid_status" \in Range(out)
        /\ calls = <<>>)

\* C2 for a non-empty status: task update calls get_task (pm.py:273) and task
\* list calls get_project (pm.py:173) before the status is validated.
C2_NamedStatusBeforeStorage ==
    (/\ cmd.name \in TaskListNames \cup TaskUpdateNames
     /\ TruthyStatus(cmd.status)
     /\ normalize_status(cmd.status)[1] \notin VALID_STATUSES)
    => calls = <<>>

\* what does hold of an invalid non-empty status: nothing is written and
\* neither list_tasks nor update_task_status is called
InvalidStatusWritesNothing ==
    (/\ cmd.name \in TaskListNames \cup TaskUpdateNames
     /\ TruthyStatus(cmd.status)
     /\ normalize_status(cmd.status)[1] \notin VALID_STATUSES)
    => (/\ tasks = preTasks
        /\ projects = preProjects
        /\ "list_tasks" \notin Range(calls)
        /\ "update_task_status" \notin Range(calls))

\* a command ended in a recoverable user error / succeeded
UserError == ~Idle /\ Range(out) \cap ErrorLines /= {}
Succeeded == ~Idle /\ Range(out) \cap ErrorLines = {} /\ "aborted" \notin Range(out)

\* C3: a command that ends in a recoverable user error prints an error line
\* and exits non-zero; a command that succeeds exits 0.
C3_ExitStatus ==
    /\ UserError => exitCode /= 0
    /\ Succeeded => exitCode = 0

\* C4: project names are unique in every reachable state; create_project on an
\* existing name raises the constraint violation and leaves the rows of
\* projects (and their count) unchanged; create_project on a new name followed
\* by get_project of that name returns the row with that name and the id
\* create_project returned.
C4_ProjectNamesUnique ==
    /\ \A p \in projects, q \in projects : p.name = q.name => p = q
    /\ cmd.name = "create_project" =>
        IF get_project(preProjects, cmd.project[1]) /= None
        THEN /\ ret = Raised("IntegrityError")
             /\ projects = preProjects
             /\ Cardinality(projects) = Cardinality(preProjects)
        ELSE /\ ret.raised = FALSE
             /\ get_project(projects, cmd.project[1])
                    = Some([id |-> ret.value, name |-> cmd.project[1]])

\* C4 witness: a second create_project of a name already in a table of two
C4_DuplicateRejected ==
    /\ cmd.name = "create_project"
    /\ ret = Raised("IntegrityError")
    /\ Cardinality(projects) = 2

\* the ids task list should print for the last command: the tasks of the
\* project named (all tasks when none is), of the status asked for (not done
\* when none is asked for and --all is absent)
ExpectedListing ==
    {r.id : r \in
        {r \in tasks :
            /\ cmd.project /= None =>
                r.project_id = Some(get_project(projects, cmd.project[1])[1].id)
            /\ IF cmd.status /= None
               THEN r.status = normalize_status(cmd.status)[1]
               ELSE cmd.all = Some(TRUE) \/ r.status /= DONE}}

\* C5: task list with no status filter and without --all displays exactly the
\* tasks (of the selected project, if one is given) that are not done; with
\* --all, all of them; with a status filter, exactly the tasks of that status.
C5_TaskListDisplays ==
    (/\ cmd.name \in TaskListNames
     /\ "list_tasks" \in Range(calls)
     /\ cmd.project /= None => get_project(projects, cmd.project[1]) /= None)
    => Range(shown) = ExpectedListing

\* what does hold of task list: C5 whenever the project option is absent or a
\* non-empty name (pm.py:172 takes an empty --project for an absent one)
NamedProjectListing ==
    (/\ cmd.name \in TaskListNames
     /\ "list_tasks" \in Range(calls)
     /\ cmd.project /= Some(""))
    => Range(shown) = ExpectedListing

\* C6: update_task_status(id, 'done') on an existing task, then get_task(id):
\* status is done and updated_at is strictly greater than before the update.
C6_DoneAdvancesUpdatedAt ==
    (/\ cmd.name = "update_task_status"
     /\ cmd.status = Some(DONE)
     /\ Affected(preTasks, cmd.task_id[1]))
    => LET got == get_task(tasks, projects, cmd.task_id[1])
       IN /\ got /= None
          /\ got[1].status = DONE
          /\ got[1].updated_at > Row(preTasks, cmd.task_id[1]).updated_at

\* what does hold of update_task_status: updated_at never moves back, and
\* moves forward when a second boundary lies between the two writes
UpdatedAtNotBefore ==
    (/\ cmd.name = "update_task_status"
     /\ Affected(preTasks, cmd.task_id[1]))
    => /\ Row(tasks, cmd.task_id[1]).updated_at
            >= Row(preTasks, cmd.task_id[1]).updated_at
       /\ Row(tasks, cmd.task_id[1]).updated_at = now

\* C7: purge accepted runs purge_database, which leaves zero rows in both
\* tables whatever they held; purge declined calls nothing and leaves both
\* tables unchanged.
C7_PurgeAfterConfirmation ==
    cmd.name = "purge" =>
        IF cmd.confirm = Some(TRUE)
        THEN /\ calls = <<"purge_database">>
             /\ tasks = {}
             /\ projects = {}
        ELSE /\ calls = <<>>
             /\ tasks = preTasks
             /\ projects = preProjects

\* C7 witness: a declined purge over non-empty tables
C7_PurgeDeclined ==
    /\ cmd.name = "purge"
    /\ cmd.confirm = Some(FALSE)
    /\ preTasks /= {}
    /\ preProjects /= {}

\* C8: update_task changes only the supplied fields, and updated_at, of the row
\* with that id and no other row; with none of title, description, project_id
\* supplied it returns false and leaves every row, updated_at included, as it
\* was.
C8_UpdateTaskFrame ==
    cmd.name = "update_task" =>
        LET id == cmd.task_id[1]
        IN /\ {r.id : r \in tasks} = {r.id : r \in preTasks}
           /\ \A r \in preTasks : r.id /= id => r \in tasks
           /\ \A old \in preTasks, new \in tasks :
                (old.id = id /\ new.id = id) =>
                    /\ new.title = IF cmd.title /= None THEN cmd.title[1]
                                   ELSE old.title
                    /\ new.description = IF cmd.description /= None
                                         THEN cmd.description ELSE old.description
                    /\ new.project_id = IF cmd.project_id /= None
                                        THEN cmd.project_id ELSE old.project_id
                    /\ new.status = old.status
                    /\ new.created_at = old.created_at
           /\ NoUpdates(cmd.title, cmd.description, cmd.project_id) =>
                /\ ret = Value(FALSE)
                /\ tasks = preTasks

\* C8 witness: update_task with the description alone, on one row of two
C8_DescriptionOnly ==
    /\ cmd.name = "update_task"
    /\ cmd.title = None /\ cmd.description /= None /\ cmd.project_id = None
    /\ Cardinality(tasks) = 2
    /\ ret = Value(TRUE)
    /\ tasks /= preTasks

\* C9: after any sequence of commands, every stored task's status is one of
\* todo, in-progress, done: a new task starts as todo, and update_task_status
\* is called only with a status that normalizes to one of the three.
C9_StatusAlwaysValid ==
    /\ \A r \in tasks : r.status \in VALID_STATUSES
    /\ (cmd.name \in TaskCreateNames /\ "create_task" \in Range(calls)) =>
            \A r \in tasks \ preTasks : r.status = TODO
    /\ (cmd.name \in TaskUpdateNames /\ "update_task_status" \in Range(calls)) =>
            /\ normalize_status(cmd.status)[1] \in VALID_STATUSES
            /\ Row(tasks, cmd.task_id[1]).status = normalize_status(cmd.status)[1]

\* C9 witness: task update --status Done stored done
C9_MixedCaseStored ==
    /\ cmd.name = "task update"
    /\ cmd.status = Some(<<"D", "o", "n", "e">>)
    /\ "updated_status" \in Range(out)
    /\ Row(tasks, cmd.task_id[1]).status = DONE
    /\ Row(preTasks, cmd.task_id[1]).status /= DONE

\* C10: after any sequence of commands, every stored task's project_id is null
\* or the id of a project that exists.
C10_ProjectIdResolves ==
    \A r \in tasks :
        r.project_id = None \/ \E p \in projects : p.id = r.project_id[1]

\* C10 witness: a purge that removed a project together with a task of it
C10_PurgedOwnedTask ==
    /\ cmd.name = "purge"
    /\ cmd.confirm = Some(TRUE)
    /\ \E r \in preTasks : r.project_id /= None
    /\ tasks = {}

=============================================================================
